---- MODULE Spec2Model ----
(***************************************************************************)
(* A model of pyconverter.xml2py: the version context                      *)
(* (version_variables.py), the term/link resolver (load_xml_doc.py) and    *)
(* the command extractor and source writer (writer.py).                    *)
(*                                                                         *)
(* Text is modelled as a sequence of tokens (characters or atomic chunks   *)
(* of characters); concatenation is \o and a substring is a contiguous     *)
(* subsequence.  None is Python's None.                                    *)
(***************************************************************************)
EXTENDS Integers, Sequences, FiniteSets, TLC

\* Python's None, as a text no input holds, so that it compares with texts.
None == <<"<None>">>

VARIABLES
    \* version_variables.py: one Autogenerateddirectory object
    vc_pc,                          \* "new" before __init__, "ready" after
    _autogenerated_directory_name,
    _version,
    _base_url,
    _cmd_base_url,
    vc_last,                        \* the last call made on the object
    \* load_links: the link directory, the loop position, the result
    lk_files,                       \* the *.db files of link_path, in glob order
    lk_i,                           \* index of the next file of the for loop
    lk_links,                       \* the local dict `links`
    lk_pc,                          \* "loop", "returned" or "raised"
    \* re.sub(r"&[\S]*;", term_replacer, text) on one text
    tr_env,                         \* the tables term_replacer closes over
    tr_text,                        \* the text given to re.sub
    tr_out,                         \* the text re.sub returns
    tr_pc,                          \* "call" or "returned"
    \* load_docu_global and load_terms on one terms directory
    lt_fs,                          \* the files of term_path, read-only
    lt_pc,                          \* the block of code to run next
    lt_err,                         \* the exception that ended the load, or None
    docu_global,                    \* the dict load_docu_global returns
    terms,                          \* the dict `terms` of load_terms
    \* load_fcache on one graphics directory
    fc_dir,                         \* the entries graph_path.glob("*") gives
    fc_i,                           \* index of the next entry of the for loop
    fcache,                         \* the local dict `fcache`
    fc_pc,                          \* "loop", "returned" or "raised"
    \* convert and write_source on one XML directory
    cv_isdir,                       \* os.path.isdir(xml_path)
    cv_files,                       \* the files glob gives, in its order
    cv_pc,                          \* the statement the run has reached
    cv_i,                           \* index of the next file of load_commands
    cv_err,                         \* the exception that ended the run
    xml_commands,                   \* the list `xml_commands` of the pass
    command_map_meta,               \* result of the meta-only pass
    name_map,                       \* result of create_name_map
    command_map,                    \* result of the full pass
    ws_structured,                  \* write_source's `structured`
    ws_check_files,                 \* write_source's `check_files`
    ws_clean,                       \* write_source's `clean`
    ws_template,                    \* the template directory that is copied
    ws_images,                      \* doc/source/images exists in the package
    ws_i,                           \* index of the next command to write
    ws_dirs,                        \* module directories under library_path
    ws_fs,                          \* files under library_path
    package_structure,              \* the dict `package_structure`
    \* two runs of convert on one unchanged XML directory
    rr_dir,                         \* the files of the directory
    rr_results,                     \* what each run returned, in turn
    \* cli.create_package
    cp_args,                        \* the arguments and XML_PATH
    cp_new_package_name,            \* new_package_name of config.yaml
    cp_default_template,            \* whether cwd/_package is a directory
    cp_pc,                          \* the statement the call has reached
    cp_err,                         \* the exception that ended the call
    cp_xml_path,                    \* the local xml_path
    cp_target_path,                 \* the local target_path
    cp_template_path,               \* write_source's local template_path
    cp_copied,                      \* the template copied into the package
    cp_new_package_path,            \* write_source's new_package_path
    cp_docs_path                    \* write_docs' package_path

\* s contains t as a contiguous run of tokens (Python's `t in s`).
Contains(s, t) ==
    \E i \in 0..(Len(s) - Len(t)) : SubSeq(s, i + 1, i + Len(t)) = t

\* Python dicts are functions; d[k] = v is Put(d, k, v).
EmptyDict == [k \in {} |-> None]

Put(d, k, v) == [x \in DOMAIN d \cup {k} |-> IF x = k THEN v ELSE d[x]]

\* The largest element of a non-empty set of integers.
MaxOf(S) == CHOOSE x \in S : \A y \in S : y <= x

\* pathlib: PurePath(name).with_suffix("").name.  The suffix starts at the
\* last "." unless that dot is the first or the last character.
WithSuffixEmpty(name) ==
    LET dots == {i \in 1..Len(name) : name[i] = "."}
    IN  IF dots = {} THEN name
        ELSE LET i == MaxOf(dots)
             IN  IF 1 < i /\ i < Len(name) THEN SubSeq(name, 1, i - 1) ELSE name

(***************************************************************************)
(* version_variables.py: class Autogenerateddirectory                      *)
(***************************************************************************)
verVars == <<vc_pc, _autogenerated_directory_name, _version, _base_url,
             _cmd_base_url, vc_last>>
linkVars == <<lk_files, lk_i, lk_links, lk_pc>>
subVars == <<tr_env, tr_text, tr_out, tr_pc>>
termVars == <<lt_fs, lt_pc, lt_err, docu_global, terms>>
cacheVars == <<fc_dir, fc_i, fcache, fc_pc>>
convVars == <<cv_isdir, cv_files, cv_pc, cv_i, cv_err, xml_commands,
              command_map_meta, name_map, command_map>>
writeVars == <<ws_structured, ws_check_files, ws_clean, ws_template,
               ws_images, ws_i, ws_dirs, ws_fs,
               package_structure>>
rerunVars == <<rr_dir, rr_results>>
pkgVars == <<cp_args, cp_new_package_name, cp_default_template, cp_pc, cp_err,
             cp_xml_path, cp_target_path, cp_template_path, cp_copied,
             cp_new_package_path, cp_docs_path>>
otherVars == <<rerunVars, pkgVars>>
vars == <<verVars, linkVars, subVars, termVars, cacheVars, convVars,
          writeVars, otherVars>>

\* The calls on the version context touch nothing else.
VcFrame ==
    UNCHANGED <<linkVars, subVars, termVars, cacheVars, convVars, writeVars,
                otherVars>>

\* Version strings a term table or a caller may supply.
Versions == {<<"23.2">>, <<"24.1">>, <<"25.1">>}

\* URLs a caller may assign directly.
Urls == {<<"http://localhost/">>, <<"https://example.org/", "v", "1">>}

DirNames == {<<"pyconverter.generatedcommands">>, <<"custom.commands">>}

\* f"https://ansyshelp.ansys.com/Views/Secured/corp/v{self._version}/en/"
VersionUrl(v) ==
    <<"https://ansyshelp.ansys.com/Views/Secured/corp/", "v">> \o v \o <<"/en/">>

\* f"{self._base_url}/ans_cmd/"
CmdUrl(base) == base \o <<"/ans_cmd/">>

\* @version.setter: stores the version and the base URL derived from it.
VersionSetter(v) ==
    /\ _version' = v
    /\ _base_url' = VersionUrl(v)

\* @base_url.setter: stores the URL and the command URL derived from it.
BaseUrlSetter(url) ==
    /\ _base_url' = url
    /\ _cmd_base_url' = CmdUrl(url)

\* __init__(terms): the four assignments, each through its setter; the
\* later setters overwrite what the earlier ones stored.
VcInitEffect(v) ==
    /\ vc_pc' = "ready"
    /\ _autogenerated_directory_name' = <<"pyconverter.generatedcommands">>
    /\ _version' = v
    /\ _base_url' = VersionUrl(v)
    /\ _cmd_base_url' = CmdUrl(VersionUrl(v))
    /\ vc_last' = <<"init", v>>

VcConstruct(v) ==
    /\ vc_pc = "new"
    /\ VcInitEffect(v)
    /\ VcFrame

VcSetVersion(v) ==
    /\ vc_pc = "ready"
    /\ VersionSetter(v)
    /\ vc_last' = <<"version", v>>
    /\ UNCHANGED <<vc_pc, _autogenerated_directory_name, _cmd_base_url>>
    /\ VcFrame

VcSetBaseUrl(url) ==
    /\ vc_pc = "ready"
    /\ BaseUrlSetter(url)
    /\ vc_last' = <<"base_url", url>>
    /\ UNCHANGED <<vc_pc, _autogenerated_directory_name, _version>>
    /\ VcFrame

VcSetCmdBaseUrl(url) ==
    /\ vc_pc = "ready"
    /\ _cmd_base_url' = url
    /\ vc_last' = <<"cmd_base_url", url>>
    /\ UNCHANGED <<vc_pc, _autogenerated_directory_name, _version, _base_url>>
    /\ VcFrame

VcSetDirectoryName(d) ==
    /\ vc_pc = "ready"
    /\ _autogenerated_directory_name' = d
    /\ vc_last' = <<"autogenerated_directory_name", d>>
    /\ UNCHANGED <<vc_pc, _version, _base_url, _cmd_base_url>>
    /\ VcFrame

VcInit ==
    /\ vc_pc = "new"
    /\ _autogenerated_directory_name = None
    /\ _version = None
    /\ _base_url = None
    /\ _cmd_base_url = None
    /\ vc_last = <<"none", None>>

VcIdle ==
    /\ vc_pc = "idle"
    /\ _autogenerated_directory_name = None
    /\ _version = None
    /\ _base_url = None
    /\ _cmd_base_url = None
    /\ vc_last = <<"none", None>>

VcNext ==
    \/ \E v \in Versions : VcConstruct(v)
    \/ \E v \in Versions : VcSetVersion(v)
    \/ \E u \in Urls \cup {VersionUrl(v) : v \in Versions} : VcSetBaseUrl(u)
    \/ \E u \in Urls \cup {CmdUrl(VersionUrl(v)) : v \in Versions} : VcSetCmdBaseUrl(u)
    \/ \E d \in DirNames : VcSetDirectoryName(d)

(***************************************************************************)
(* load_xml_doc.py: load_links                                             *)
(*                                                                         *)
(* A parsed link-table file is a tree of ast.Element nodes and text        *)
(* fragments: a sequence of nodes in document order, node 1 the root,      *)
(* each other node naming its parent, which precedes it.                   *)
(***************************************************************************)
MaxNodes == 3

TargetPtrs == {<<"p1">>, <<"p2">>}
Hrefs == {<<"a.html">>, <<"b.html">>}

\* The nodes of a tree: a text fragment, a <ttl> element, or a <div>
\* element with any combination of the targetptr and href attributes.
NodeKinds ==
    {[kind |-> "text", tag |-> "#text", targetptr |-> None, href |-> None]}
    \cup {[kind |-> "elem", tag |-> "ttl", targetptr |-> None, href |-> None]}
    \cup [kind : {"elem"}, tag : {"div"},
          targetptr : TargetPtrs \cup {None}, href : Hrefs \cup {None}]

WithParent(k, p) ==
    [kind |-> k.kind, tag |-> k.tag, targetptr |-> k.targetptr,
     href |-> k.href, parent |-> p]

\* The parent of each node of a tree of n nodes: none for the root, an
\* earlier node for every other.
ParentMaps(n) ==
    {ps \in [1..n -> 0..(n - 1)] :
        ps[1] = 0 /\ \A i \in 2..n : ps[i] \in 1..(i - 1)}

\* The tree with the given node kinds and parents.
TreeOf(ks, ps) == [i \in DOMAIN ks |-> WithParent(ks[i], ps[i])]

\* A tree: a root element, each further node under an element.
IsTree(t) ==
    /\ t[1].kind = "elem"
    /\ \A i \in 2..Len(t) : t[t[i].parent].kind = "elem"

\* The *.db files a link directory may hold: one that lxml cannot parse,
\* or one that parses to a tree.
LinkFileNames == {<<"wb_sim", ".", "db">>}

UnparsedFile(name) == [name |-> name, parsed |-> FALSE, tree |-> <<>>]
ParsedFile(name, t) == [name |-> name, parsed |-> TRUE, tree |-> t]

\* A file fromstring cannot parse, next to the others of the directory.
BadLinkFile == UnparsedFile(<<"bad", ".", "db">>)

\* The directories link_path.glob("*.db") lists around a file f: f alone,
\* or f and an unparsable file, in either order.
LinkDirs(f) == {<<f>>, <<BadLinkFile, f>>, <<f, BadLinkFile>>}

\* A load_links without the `except ParserError`.
NeverSkipped(f) == FALSE

\* Lines 52-55: fromstring raises ParserError and the file is skipped.
Skipped(f) == ~f.parsed

\* ast.Element: iteration and indexing run over the node's content, the
\* child elements and text fragments in document order.
Content(t, n) ==
    LET kids == {i \in 1..Len(t) : t[i].parent = n}
        Ordered[S \in SUBSET (1..Len(t))] ==
            IF S = {} THEN <<>>
            ELSE LET m == MaxOf(S) IN Append(Ordered[S \ {m}], m)
    IN  Ordered[kids]

\* ast.Element.has_children()
HasChildren(t, n) == \E i \in 1..Len(t) : t[i].parent = n

\* ast.Element.get(key): the attribute, or None when it is absent.
GetHref(t, n) == t[n].href
GetTargetPtr(t, n) == t[n].targetptr

\* str(node)
StrOf(t, n) == <<"text of node", n>>

\* The attribute reads of grab_links' loop body: href comes from the item,
\* targetptr from the node whose content is being walked.
ItemHref(t, linkmap, item) == GetHref(t, item)
ItemTargetPtr(t, linkmap, item) == GetTargetPtr(t, linkmap)

\* grab_links(linkmap): the walk over the content of node `linkmap`, with
\* acc.links the dict built so far.  acc.ok turns FALSE when linkmap[0].tag
\* is read off a text fragment (an AttributeError).
RECURSIVE GrabItems(_, _, _, _, _, _)
GrabLinks(t, linkmap, acc, root_name, root_title) ==
    GrabItems(t, linkmap, Content(t, linkmap), acc, root_name, root_title)

GrabItems(t, linkmap, items, acc, root_name, root_title) ==
    IF items = <<>> \/ ~acc.ok THEN acc
    ELSE
      LET item == Head(items)
          rest == Tail(items)
      IN
      IF t[item].kind # "elem"
      THEN GrabItems(t, linkmap, rest, acc, root_name, root_title)
      ELSE
        LET inner == IF HasChildren(t, item)
                     THEN GrabLinks(t, item, acc, root_name, root_title)
                     ELSE acc
            href == ItemHref(t, linkmap, item)
            targetptr == ItemTargetPtr(t, linkmap, item)
            first == Content(t, linkmap)[1]
            text == IF t[first].tag = "ttl" THEN StrOf(t, first) ELSE <<>>
            after ==
                IF ~inner.ok THEN inner
                ELSE IF targetptr # None /\ href # None
                THEN IF t[first].kind # "elem"
                     THEN [ok |-> FALSE, links |-> inner.links]
                     ELSE [ok |-> TRUE,
                           links |-> Put(inner.links, targetptr,
                                         <<root_name, root_title, href, text>>)]
                ELSE inner
        IN  GrabItems(t, linkmap, rest, after, root_name, root_title)

\* One iteration of `for filename in linkmap_fnames`: a file that does not
\* parse is skipped; root_title = str(linkmap[0]) raises for a root without
\* content.
LoadLinksFile ==
    /\ lk_pc = "loop"
    /\ lk_i <= Len(lk_files)
    /\ LET f == lk_files[lk_i]
           root_name == WithSuffixEmpty(f.name)
       IN  IF Skipped(f)
           THEN /\ lk_links' = lk_links
                /\ lk_pc' = "loop"
           ELSE IF Content(f.tree, 1) = <<>>
           THEN /\ lk_links' = lk_links
                /\ lk_pc' = "raised"
           ELSE LET root_title == StrOf(f.tree, Content(f.tree, 1)[1])
                    got == GrabLinks(f.tree, 1, [ok |-> TRUE, links |-> lk_links],
                                     root_name, root_title)
                IN  IF ~got.ok
                    THEN /\ lk_links' = lk_links
                         /\ lk_pc' = "raised"
                    ELSE /\ lk_links' = got.links
                         /\ lk_pc' = "loop"
    /\ lk_i' = lk_i + 1
    /\ UNCHANGED <<lk_files, verVars, subVars, termVars, cacheVars, convVars,
                   writeVars, otherVars>>

\* `return links`, once every file has been visited.
LoadLinksReturn ==
    /\ lk_pc = "loop"
    /\ lk_i > Len(lk_files)
    /\ lk_pc' = "returned"
    /\ UNCHANGED <<lk_files, lk_i, lk_links, verVars, subVars, termVars,
                   cacheVars, convVars, writeVars,
                otherVars>>

LkInit ==
    /\ \E name \in LinkFileNames :
          \/ lk_files \in LinkDirs(UnparsedFile(name))
          \/ \E n \in 1..MaxNodes : \E ps \in ParentMaps(n) :
                \E ks \in [1..n -> NodeKinds] :
                   /\ IsTree(TreeOf(ks, ps))
                   /\ lk_files \in LinkDirs(ParsedFile(name, TreeOf(ks, ps)))
    /\ lk_i = 1
    /\ lk_links = EmptyDict
    /\ lk_pc = "loop"

LkIdle ==
    /\ lk_files = <<>>
    /\ lk_i = 1
    /\ lk_links = EmptyDict
    /\ lk_pc = "idle"

LkNext == LoadLinksFile \/ LoadLinksReturn

(***************************************************************************)
(* load_xml_doc.py: load_terms.term_replacer and the re.sub that calls it  *)
(***************************************************************************)
MaxPieces == 3

Blank == " "

\* The literal the test expects for &me;.
AnsysMechanical == <<"Ansys", " ", "Mechanical">>

\* The f-string of the cross-link: a backquote, link_text, " <", the link
\* f"{base_url}{root_name}/{href}", ">", a backquote and "_".
CrossLink(link_text, base_url, root_name, href) ==
    <<"BACKQUOTE">> \o link_text \o <<" ", "<">> \o base_url \o root_name
        \o <<"/">> \o href \o <<">", "BACKQUOTE", "_">>

\* dict.get(key, default)
DictGet(d, k, default) == IF k \in DOMAIN d THEN d[k] ELSE default

\* What term_replacer does with a term that docu_global lists but whose
\* pointer is not a key of links: the function falls off its end.
UnlinkedDocuTerm(term, matched, tbl) == None

\* term_replacer(match): the replacement text, or None when the function
\* returns nothing.
TermReplacer(matched, docu, links, tbl, base_url) ==
    LET term == SubSeq(matched, 2, Len(matched) - 1)
    IN  IF term \in DOMAIN docu
        THEN LET key == docu[term][2]
                 cite_title == docu[term][3]
             IN  IF key \in DOMAIN links
                 THEN LET root_name == links[key][1]
                          root_title == links[key][2]
                          href == links[key][3]
                          link_text == DictGet(tbl, cite_title, root_title)
                      IN  CrossLink(link_text, base_url, root_name, href)
                 ELSE UnlinkedDocuTerm(term, matched, tbl)
        ELSE IF term \notin DOMAIN tbl THEN matched ELSE tbl[term]

\* The end of the match of &[\S]*; that starts at the "&" at position i, or
\* 0 when there is none: \S* is greedy, so the match runs to the last ";"
\* of the blank-free run that follows the "&".
MatchEnd(s, i) ==
    LET blanks == {j \in (i + 1)..Len(s) : s[j] = Blank}
        runEnd == IF blanks = {} THEN Len(s)
                  ELSE (CHOOSE j \in blanks : \A k \in blanks : j <= k) - 1
        semis == {j \in (i + 1)..runEnd : s[j] = ";"}
    IN  IF semis = {} THEN 0 ELSE MaxOf(semis)

\* re.sub(r"&[\S]*;", term_replacer, s) from position i on: matches are
\* found left to right and do not overlap; a replacement of None is the
\* empty text.
RECURSIVE ReSubFrom(_, _, _, _, _, _)
ReSubFrom(s, i, docu, links, tbl, base_url) ==
    IF i > Len(s) THEN <<>>
    ELSE IF s[i] = "&" /\ MatchEnd(s, i) # 0
    THEN LET j == MatchEnd(s, i)
             r == TermReplacer(SubSeq(s, i, j), docu, links, tbl,
                               base_url)
         IN  (IF r = None THEN <<>> ELSE r)
                 \o ReSubFrom(s, j + 1, docu, links, tbl, base_url)
    ELSE <<s[i]>> \o ReSubFrom(s, i + 1, docu, links, tbl, base_url)

ReSub(s, docu, links, tbl, base_url) ==
    ReSubFrom(s, 1, docu, links, tbl, base_url)

\* The entity references and the other pieces a manual text is made of.
RefMe == <<"&", "me", ";">>
RefUnknown == <<"&", "unknown", ";">>
RefDocu == <<"&", "dg", ";">>
Pieces == {RefMe, RefUnknown, RefDocu, <<Blank>>, <<"x">>, <<"&">>, <<";">>}

RECURSIVE Texts(_)
Texts(n) ==
    IF n = 0 THEN {<<>>}
    ELSE Texts(n - 1) \cup {t \o p : t \in Texts(n - 1), p \in Pieces}

\* The tables: "me" is a term and not a documentation entity; "dg" is a
\* documentation entity whose pointer may or may not be a key of links and
\* which may or may not be a term as well; "unknown" is in no table.
DocuEntry == <<<<"doc">>, <<"p1">>, <<"bk">>>>
LinkEntry == <<<<"wb_sim">>, <<"Title">>, <<"a.html">>, <<>>>>
SubBaseUrl == VersionUrl(<<"23.2">>)

SubEnvs ==
    [docu_global : {[k \in {<<"dg">>} |-> DocuEntry]},
     links : {EmptyDict, [k \in {<<"p1">>} |-> LinkEntry]},
     terms : {[k \in {<<"me">>} |-> AnsysMechanical],
              [k \in {<<"me">>, <<"dg">>} |->
                  IF k = <<"me">> THEN AnsysMechanical ELSE <<"Docu", "Guide">>],
              [k \in {<<"me">>, <<"bk">>} |->
                  IF k = <<"me">> THEN AnsysMechanical ELSE <<"Book">>]}]

SubFrame ==
    UNCHANGED <<verVars, linkVars, termVars, cacheVars, convVars, writeVars,
                otherVars>>

\* text = re.sub(r"&[\S]*;", term_replacer, text)
TrSub ==
    /\ tr_pc = "call"
    /\ tr_out' = ReSub(tr_text, tr_env.docu_global, tr_env.links, tr_env.terms,
                       SubBaseUrl)
    /\ tr_pc' = "returned"
    /\ UNCHANGED <<tr_env, tr_text>>
    /\ SubFrame

TrInit ==
    /\ tr_env \in SubEnvs
    /\ tr_text \in Texts(MaxPieces)
    /\ tr_out = None
    /\ tr_pc = "call"

TrIdle ==
    /\ tr_env = EmptyDict
    /\ tr_text = <<>>
    /\ tr_out = None
    /\ tr_pc = "idle"

TrNext == TrSub

(***************************************************************************)
(* load_xml_doc.py: load_docu_global and load_terms                        *)
(*                                                                         *)
(* An entity file is a sequence of lines; a line is the pair of what the   *)
(* line-oriented patterns can extract from it: the entity name after       *)
(* "!ENTITY " (None when the line declares no entity) and the text between *)
(* its quotes (None when it holds no quoted literal).  A file is whether   *)
(* it exists and, if so, its lines.                                        *)
(***************************************************************************)
MaxVarLines == 2

Absent == [exists |-> FALSE, lines |-> <<>>]

File(lines) == [exists |-> TRUE, lines |-> lines]

VersionKey == <<"ansys_internal_version">>

\* re.findall(r"'(\S*)'", line): a quoted literal without white space.
VariableMatches(line) ==
    IF line.value # None /\ ~Contains(line.value, <<Blank>>)
    THEN <<line.value>> ELSE <<>>

\* re.findall(r"'(.*)'", line): a quoted literal.
GlobalMatches(line) == IF line.value # None THEN <<line.value>> ELSE <<>>

\* The lines of build_variables.ent, in order: lines 199-204.
RECURSIVE VariableLines(_, _)
VariableLines(t, lines) ==
    IF lines = <<>> THEN t
    ELSE LET line == Head(lines)
             next == IF line.entity # None /\ VariableMatches(line) # <<>>
                     THEN Put(t, line.entity, VariableMatches(line)[1])
                     ELSE t
         IN  VariableLines(next, Tail(lines))

\* Lines 193-209: the variable terms, or the default version without them.
VariableStage(t, file) ==
    IF file.exists THEN VariableLines(t, file.lines)
    ELSE Put(t, VersionKey, <<"23.2">>)

\* The lines of terms_global.ent, in order: lines 219-226.
RECURSIVE GlobalLines(_, _)
GlobalLines(t, lines) ==
    IF lines = <<>> THEN t
    ELSE LET line == Head(lines)
             next == IF line.entity # None /\ GlobalMatches(line) # <<>>
                     THEN Put(t, line.entity, GlobalMatches(line)[1])
                     ELSE t
         IN  GlobalLines(next, Tail(lines))

\* Lines 214-228.
GlobalStage(t, file) == IF file.exists THEN GlobalLines(t, file.lines) ELSE t

\* The assignments of lines 232-246.  Python reads "\a" and "\t" in the
\* literals of agr and thetas as the BEL and TAB characters.
HandCodedKeys ==
    {<<"sgr">>, <<"gt">>, <<"thgr">>, <<"phgr">>, <<"ngr">>, <<"agr">>,
     <<"OHgr">>, <<"phis">>, <<"thetas">>, <<"#13">>, <<"#160">>, <<"#215">>,
     <<"#934">>}

HandCoded ==
    [k \in HandCodedKeys |->
        CASE k = <<"sgr">> -> <<":math:", "\\sigma">>
          [] k = <<"gt">> -> <<":math:", "\\sigma">>
          [] k = <<"thgr">> -> <<":math:", "<">>
          [] k = <<"phgr">> -> <<":math:", "<">>
          [] k = <<"ngr">> -> <<":math:", "\\phi">>
          [] k = <<"agr">> -> <<":math:", "BEL", "lpha">>
          [] k = <<"OHgr">> -> <<":math:", "\\Omega">>
          [] k = <<"phis">> -> <<":math:", "\\phi">>
          [] k = <<"thetas">> -> <<":math:", "TAB", "heta">>
          [] k = <<"#13">> -> <<"#13">>
          [] k = <<"#160">> -> <<"nbsp">>
          [] k = <<"#215">> -> <<"times">>
          [] k = <<"#934">> -> <<":math:", "\\Phi">>]

\* d.update(e): the entries of e over those of d.
Update(d, e) ==
    [k \in DOMAIN d \cup DOMAIN e |-> IF k \in DOMAIN e THEN e[k] ELSE d[k]]

\* The hand-coded block written as defaults: a key a file defined is kept.
HandCodedAsDefaults(t) == Update(HandCoded, t)

\* Lines 232-246: plain assignments, over whatever the files defined.
HandCodedStage(t) == Update(t, HandCoded)

\* str.strip()
RECURSIVE LStrip(_)
LStrip(s) == IF s # <<>> /\ Head(s) = Blank THEN LStrip(Tail(s)) ELSE s

RECURSIVE RStrip(_)
RStrip(s) ==
    IF s # <<>> /\ s[Len(s)] = Blank THEN RStrip(SubSeq(s, 1, Len(s) - 1)) ELSE s

Strip(s) == RStrip(LStrip(s))

\* item.split()[0]: the first run of characters without white space.
FirstWord(s) ==
    LET t == LStrip(s)
        blanks == {i \in 1..Len(t) : t[i] = Blank}
    IN  IF blanks = {} THEN t
        ELSE SubSeq(t, 1, (CHOOSE i \in blanks : \A j \in blanks : i <= j) - 1)

\* s.replace(key, ""): every occurrence of key removed, left to right.
RECURSIVE Remove(_, _)
Remove(s, key) ==
    IF s = <<>> \/ key = <<>> THEN s
    ELSE IF Len(s) >= Len(key) /\ SubSeq(s, 1, Len(key)) = key
    THEN Remove(SubSeq(s, Len(key) + 1, Len(s)), key)
    ELSE <<Head(s)>> \o Remove(Tail(s), key)

\* text[1:-2]
Slice1Minus2(s) == SubSeq(s, 2, Len(s) - 2)

\* The manual entities, in order: lines 254-281.  An entity whose text does
\* not start with a quote is skipped.
RECURSIVE ManualItems(_, _, _, _, _)
ManualItems(t, items, docu, links, base_url) ==
    IF items = <<>> THEN t
    ELSE LET item == Head(items)
             key == FirstWord(item)
             quoted == Strip(Remove(item, key))
             text == Strip(Slice1Minus2(quoted))
             next == IF quoted = <<>> \/ Head(quoted) # "'" THEN t
                     ELSE Put(t, key, ReSub(text, docu, links, t, base_url))
         IN  ManualItems(next, Tail(items), docu, links, base_url)

\* Lines 249-283.
ManualStage(t, file, docu, links, base_url) ==
    IF file.exists THEN ManualItems(t, file.lines, docu, links, base_url)
    ELSE t

\* unicodedata.lookup(char_name)
UnicodeChar(char_name) == <<"U+">> \o char_name

\* The lines of the *.ent files of the character directory: lines 293-302.
\* A line is its entity name, the name in its comment (None without a
\* comment) and whether Unicode knows that name.
RECURSIVE CharLines(_, _)
CharLines(t, lines) ==
    IF lines = <<>> THEN t
    ELSE LET line == Head(lines)
             next == IF line.entity # None /\ line.comment # None /\ line.known
                     THEN Put(t, line.entity, UnicodeChar(Strip(line.comment)))
                     ELSE t
         IN  CharLines(next, Tail(lines))

\* Lines 286-302: nothing is said and nothing is done without the directory.
CharStage(t, dir) == IF dir.exists THEN CharLines(t, dir.lines) ELSE t

\* The lines of the group-code file: lines 310-316.  A line is its entity
\* name and the texts of its <classname> and <type> elements (None when the
\* element is missing, where findall(...)[0] raises IndexError).
GroupLineRaises(line) ==
    line.entity # None /\ (line.classname = None \/ line.typename = None)

RECURSIVE GroupLines(_, _)
GroupLines(t, lines) ==
    IF lines = <<>> THEN t
    ELSE LET line == Head(lines)
             next == IF line.entity # None
                     THEN Put(t, line.entity, <<line.classname, line.typename>>)
                     ELSE t
         IN  GroupLines(next, Tail(lines))

GroupStage(t, file) == IF file.exists THEN GroupLines(t, file.lines) ELSE t

\* The lines of docu_global.ent: lines 127-141.  A line is its entity name
\* and the targetdoc, targetptr and citetitle found on it (None if missing).
RECURSIVE DocuLines(_, _)
DocuLines(d, lines) ==
    IF lines = <<>> THEN d
    ELSE LET line == Head(lines)
             next == IF line.entity # None
                     THEN Put(d, line.entity,
                              <<line.targetdoc, line.targetptr, line.citetitle>>)
                     ELSE d
         IN  DocuLines(next, Tail(lines))

\* ---- the input files ----
VarLineKinds ==
    {[entity |-> VersionKey, value |-> <<"24.1">>],
     [entity |-> <<"sgr">>, value |-> <<"V-sgr">>],
     [entity |-> <<"me">>, value |-> <<"V-me">>],
     [entity |-> <<"two">>, value |-> <<"two", Blank, "words">>]}

RECURSIVE SeqsUpTo(_, _)
SeqsUpTo(S, n) ==
    IF n = 0 THEN {<<>>}
    ELSE SeqsUpTo(S, n - 1)
         \cup {Append(q, x) : q \in {r \in SeqsUpTo(S, n - 1) : Len(r) = n - 1},
                              x \in S}

VariableFiles ==
    {Absent} \cup {File(q) : q \in SeqsUpTo(VarLineKinds, MaxVarLines)}

GlobalLineVersion == [entity |-> VersionKey, value |-> <<"25.1">>]
GlobalLineSgr == [entity |-> <<"sgr">>, value |-> <<"G-sgr">>]
GlobalLineMe == [entity |-> <<"me">>, value |-> AnsysMechanical]

GlobalFiles ==
    {Absent, File(<<>>), File(<<GlobalLineVersion>>), File(<<GlobalLineSgr>>),
     File(<<GlobalLineMe>>), File(<<GlobalLineSgr, GlobalLineMe>>)}

\* "man 'Guide &dg; &me;'>", "sgr 'M-sgr'>" and "sys SYSTEM x>".
ManualMan ==
    <<"man", Blank, "'", "Guide", Blank>> \o RefDocu \o <<Blank>> \o RefMe
        \o <<"'", ">">>
ManualSgr == <<"sgr", Blank, "'", "M-sgr", "'", ">">>
ManualSys == <<"sys", Blank, "SYSTEM", Blank, "x", ">">>

ManualFiles == {Absent, File(<<ManualMan, ManualSys>>), File(<<ManualSgr>>)}

CharDirs ==
    {Absent,
     File(<<[entity |-> <<"sgr">>, comment |-> <<"GREEK SMALL LETTER SIGMA">>,
             known |-> TRUE]>>),
     File(<<[entity |-> <<"foo">>, comment |-> <<"NO SUCH CHARACTER">>,
             known |-> FALSE]>>)}

GroupFiles ==
    {Absent,
     File(<<[entity |-> <<"xtybasic">>, classname |-> <<"Session">>,
             typename |-> <<"Run", Blank, "Controls">>]>>),
     File(<<[entity |-> <<"xtybad">>, classname |-> None,
             typename |-> None]>>)}

DocuFiles ==
    {Absent,
     File(<<[entity |-> <<"dg">>, targetdoc |-> <<"doc">>,
             targetptr |-> <<"p1">>, citetitle |-> <<"bk">>]>>)}

TermDirs ==
    [docu : DocuFiles, variable : VariableFiles, global : GlobalFiles,
     manual : ManualFiles, chars : CharDirs, groups : GroupFiles]

\* The link tables load_links may have returned before.
LinkTables == {EmptyDict, [k \in {<<"p1">>} |-> LinkEntry]}

\* ---- the calls ----
LtFrame ==
    UNCHANGED <<lt_fs, linkVars, subVars, cacheVars, convVars, writeVars,
                otherVars>>

VcUnchanged == UNCHANGED verVars

\* load_docu_global(term_path): open() raises when the file is not there.
LoadDocuGlobal ==
    /\ lt_pc = "docu_global"
    /\ IF ~lt_fs.docu.exists
       THEN /\ lt_pc' = "raised"
            /\ lt_err' = <<"FileNotFoundError">>
            /\ docu_global' = docu_global
       ELSE /\ lt_pc' = "variable"
            /\ lt_err' = lt_err
            /\ docu_global' = DocuLines(EmptyDict, lt_fs.docu.lines)
    /\ UNCHANGED terms
    /\ VcUnchanged
    /\ LtFrame

\* load_terms, lines 191-212: the variable terms and the version context
\* built from them; terms["ansys_internal_version"] raises KeyError when
\* the file defines no such entity.
LtVariable ==
    /\ lt_pc = "variable"
    /\ LET t == VariableStage(EmptyDict, lt_fs.variable)
       IN  /\ terms' = t
           /\ IF VersionKey \in DOMAIN t
              THEN /\ VcInitEffect(t[VersionKey])
                   /\ lt_pc' = "global"
                   /\ lt_err' = lt_err
              ELSE /\ VcUnchanged
                   /\ lt_pc' = "raised"
                   /\ lt_err' = <<"KeyError">>
    /\ UNCHANGED docu_global
    /\ LtFrame

\* Lines 214-228.
LtGlobal ==
    /\ lt_pc = "global"
    /\ terms' = GlobalStage(terms, lt_fs.global)
    /\ lt_pc' = "hand_coded"
    /\ UNCHANGED <<docu_global, lt_err>>
    /\ VcUnchanged
    /\ LtFrame

\* Lines 232-246.
LtHandCoded ==
    /\ lt_pc = "hand_coded"
    /\ terms' = HandCodedStage(terms)
    /\ lt_pc' = "manuals"
    /\ UNCHANGED <<docu_global, lt_err>>
    /\ VcUnchanged
    /\ LtFrame

\* Lines 249-283; base_url is the one read off the version context.
LtManuals ==
    /\ lt_pc = "manuals"
    /\ terms' = ManualStage(terms, lt_fs.manual, docu_global, lk_links, _base_url)
    /\ lt_pc' = "chars"
    /\ UNCHANGED <<docu_global, lt_err>>
    /\ VcUnchanged
    /\ LtFrame

\* Lines 286-302.
LtChars ==
    /\ lt_pc = "chars"
    /\ terms' = CharStage(terms, lt_fs.chars)
    /\ lt_pc' = "groups"
    /\ UNCHANGED <<docu_global, lt_err>>
    /\ VcUnchanged
    /\ LtFrame

\* Lines 305-319.
LtGroups ==
    /\ lt_pc = "groups"
    /\ IF /\ lt_fs.groups.exists
          /\ \E i \in 1..Len(lt_fs.groups.lines) :
                GroupLineRaises(lt_fs.groups.lines[i])
       THEN /\ terms' = terms
            /\ lt_pc' = "raised"
            /\ lt_err' = <<"IndexError">>
       ELSE /\ terms' = GroupStage(terms, lt_fs.groups)
            /\ lt_pc' = "return"
            /\ lt_err' = lt_err
    /\ UNCHANGED docu_global
    /\ VcUnchanged
    /\ LtFrame

\* Line 339: return terms, version_variables.
LtReturn ==
    /\ lt_pc = "return"
    /\ lt_pc' = "returned"
    /\ UNCHANGED <<docu_global, terms, lt_err>>
    /\ VcUnchanged
    /\ LtFrame

LtInit ==
    /\ lt_fs \in TermDirs
    /\ lt_pc = "docu_global"
    /\ lt_err = None
    /\ docu_global = EmptyDict
    /\ terms = EmptyDict

LtIdle ==
    /\ lt_fs = EmptyDict
    /\ lt_pc = "idle"
    /\ lt_err = None
    /\ docu_global = EmptyDict
    /\ terms = EmptyDict

\* The link table is an argument of load_terms.
LkGiven ==
    /\ lk_files = <<>>
    /\ lk_i = 1
    /\ lk_links \in LinkTables
    /\ lk_pc = "returned"

LtNext ==
    \/ LoadDocuGlobal
    \/ LtVariable
    \/ LtGlobal
    \/ LtHandCoded
    \/ LtManuals
    \/ LtChars
    \/ LtGroups
    \/ LtReturn

(***************************************************************************)
(* load_xml_doc.py: load_fcache                                            *)
(*                                                                         *)
(* The graphics directory is the list graph_path.glob("*") gives: entries  *)
(* with distinct names, in the order of the scan, each a regular file or   *)
(* not.                                                                    *)
(***************************************************************************)
MaxGraphics == 3

APng == <<"a", ".", "png">>
BJpg == <<"b", ".", "jpg">>
AJpg == <<"a", ".", "jpg">>
ATarGz == <<"a", ".", "tar", ".", "gz">>
DotFile == <<".", "gitignore">>
SubDir == <<"sub">>

GraphicNames == {APng, BJpg, AJpg, ATarGz, DotFile, SubDir}

DistinctNames(q) ==
    \A i, j \in 1..Len(q) : q[i].name = q[j].name => i = j

GraphicDirs ==
    {q \in SeqsUpTo([name : GraphicNames, is_file : BOOLEAN], MaxGraphics) :
        DistinctNames(q)}

\* Lines 99-100: an entry that is not a regular file ends the scan.
ScanAcceptsAll(entry) == FALSE

ScanRaises(entry) == ~entry.is_file

FcFrame ==
    UNCHANGED <<verVars, linkVars, subVars, termVars, convVars, writeVars,
                otherVars>>

\* One iteration of `for filename in list(graph_path.glob("*"))`.
LoadFcacheFile ==
    /\ fc_pc = "loop"
    /\ fc_i <= Len(fc_dir)
    /\ LET filename == fc_dir[fc_i]
           basename == WithSuffixEmpty(filename.name)
       IN  IF ScanRaises(filename)
           THEN /\ fc_pc' = "raised"
                /\ fcache' = fcache
           ELSE /\ fc_pc' = "loop"
                /\ fcache' = Put(fcache, basename, filename.name)
    /\ fc_i' = fc_i + 1
    /\ UNCHANGED fc_dir
    /\ FcFrame

\* `return fcache`, once every entry has been visited.
LoadFcacheReturn ==
    /\ fc_pc = "loop"
    /\ fc_i > Len(fc_dir)
    /\ fc_pc' = "returned"
    /\ UNCHANGED <<fc_dir, fc_i, fcache>>
    /\ FcFrame

FcInit ==
    /\ fc_dir \in GraphicDirs
    /\ fc_i = 1
    /\ fcache = EmptyDict
    /\ fc_pc = "loop"

FcIdle ==
    /\ fc_dir = <<>>
    /\ fc_i = 1
    /\ fcache = EmptyDict
    /\ fc_pc = "idle"

FcNext == LoadFcacheFile \/ LoadFcacheReturn

(***************************************************************************)
(* writer.py: convert, its inner load_commands, and write_source           *)
(*                                                                         *)
(* The XML directory is the list glob gives.  A file is a reference entry  *)
(* or not (get_refentry); a reference entry has a command name and a class *)
(* string `ref`, which is kept as what the four patterns of regex_pattern  *)
(* find in it.                                                             *)
(***************************************************************************)
MaxXmlFiles == 2

SKIP_XML == {<<"*", "IF">>, <<"*", "ELSE">>, <<"*", "RETURN">>, <<"*", "DEL">>}

CommandNames ==
    {<<"/", "GCOLUMN">>, <<"VGET">>, <<"*", "VGET">>, <<"/", "VGET">>,
     <<"*", "IF">>}

Ref(group, classname, typename_1opt, typename_2opt) ==
    [get_group |-> group, get_classname |-> classname,
     get_typename_1opt |-> typename_1opt, get_typename_2opt |-> typename_2opt]

RefGroup(code) == Ref(<<code>>, <<>>, <<>>, <<>>)

Refs ==
    {RefGroup(<<"xtybasic">>),
     RefGroup(<<"xtycadimport">>),
     RefGroup(<<"xtyunknown">>),
     Ref(<<>>, <<<<"PREP7">>>>, <<<<"Meshing">>>>, <<>>),
     Ref(<<>>, <<<<"PREP7">>, <<"SOLUTION">>>>, <<<<"Meshing">>>>,
         <<<<"Loads">>>>),
     Ref(<<>>, <<>>, <<>>, <<>>)}

NotRefentry == [refentry |-> FALSE, name |-> None, ref |-> Ref(<<>>, <<>>, <<>>, <<>>)]

XmlFiles ==
    {NotRefentry} \cup [refentry : {TRUE}, name : CommandNames, ref : Refs]

XmlDirs == SeqsUpTo(XmlFiles, MaxXmlFiles)

\* The term table convert hands to load_commands: the group codes of
\* load_terms, lines 305-319.
ConvertTerms ==
    GroupLines(EmptyDict,
               <<[entity |-> <<"xtybasic">>, classname |-> <<"Session">>,
                  typename |-> <<"Run", Blank, "Controls">>]>>)

\* `command.group is None`, written as a pair so that it compares with the
\* [classname, typename] pairs.
NoGroup == <<None, None>>

\* ast.XMLCommand(filename, refentry[0], ...): a new command has no group
\* and is not archived.
XMLCommand(i, file) ==
    [xml_filename |-> i, name |-> file.name, group |-> NoGroup,
     is_archived |-> FALSE]

\* Lines 134-149 of load_commands: what the full pass does to the command
\* it has just appended.  `err` is the exception that leaves load_commands.
Classify(command, ref, tbl) ==
    IF Len(ref.get_group) > 0
    THEN IF ref.get_group[1] = <<"xtycadimport">>
         THEN [err |-> None, command |-> command]
         ELSE IF ref.get_group[1] \in DOMAIN tbl
         THEN [err |-> None,
               command |-> [command EXCEPT !.group = tbl[ref.get_group[1]]]]
         ELSE [err |-> <<"KeyError">>, command |-> command]
    ELSE LET typenames == IF Len(ref.get_classname) > 1
                          THEN ref.get_typename_2opt
                          ELSE ref.get_typename_1opt
         IN  IF Len(typenames) = 0 \/ Len(ref.get_classname) = 0
             THEN [err |-> <<"IndexError">>, command |-> command]
             ELSE [err |-> None,
                   command |-> [command EXCEPT
                                   !.group = <<ref.get_classname[1],
                                               typenames[1]>>,
                                   !.is_archived = TRUE]]

\* A full pass that tests the group code first and leaves a CAD import out
\* of the list.
FullPassSkipsCad(cmds, classified) ==
    IF classified.err = None /\ classified.command.group = NoGroup
    THEN cmds
    ELSE Append(cmds, classified.command)

\* Lines 130-149 of the full pass: line 130 appends the command before its
\* class string is read, so the `continue` of line 138 and the exceptions
\* of lines 139-147 leave it in the list.
FullPassAppends(cmds, classified) == Append(cmds, classified.command)

\* {cmd.name: cmd for cmd in xml_commands}: a dict keeps the position of
\* the first command of a name and the value of the last one.
RECURSIVE DictOfCommands(_)
DictOfCommands(cmds) ==
    IF cmds = <<>> THEN <<>>
    ELSE LET before == DictOfCommands(SubSeq(cmds, 1, Len(cmds) - 1))
             cmd == cmds[Len(cmds)]
         IN  IF \E k \in 1..Len(before) : before[k].name = cmd.name
             THEN [k \in 1..Len(before) |->
                      IF before[k].name = cmd.name THEN cmd ELSE before[k]]
             ELSE Append(before, cmd)

\* dict.keys()
Keys(map) == {map[k].name : k \in 1..Len(map)}

\* --- utils.create_name_map(meta_command, "config.yaml") ---
\* str.lower() on the words the command names and group strings are made of.
LowerWord(w) ==
    CASE w = "GCOLUMN" -> "gcolumn"
      [] w = "VGET" -> "vget"
      [] w = "IF" -> "if"
      [] w = "Session" -> "session"
      [] w = "Run" -> "run"
      [] w = "Controls" -> "controls"
      [] w = "PREP7" -> "prep7"
      [] w = "SOLUTION" -> "solution"
      [] w = "Meshing" -> "meshing"
      [] w = "Loads" -> "loads"
      [] OTHER -> w

Lower(s) == [k \in 1..Len(s) |-> LowerWord(s[k])]

\* The special-case renames of the configuration.
specific_command_mapping == [k \in {<<"*", "IF">>} |-> <<"star_", "if_">>]

\* The token that stands for a leading character.
PrefixToken(c) == IF c = "/" THEN "slash_" ELSE "star_"

IsAlnum(c) == c \notin {"/", "*"}

\* The name without its leading non-alphanumeric character, in lower case.
Stripped(name) == Lower(IF IsAlnum(Head(name)) THEN name ELSE Tail(name))

\* The identifier of one command among `names`: the configured rename, or
\* the stripped name when no other command strips to it, or else the name
\* with its leading character spelled out.
PyName(name, names) ==
    IF name \in DOMAIN specific_command_mapping
    THEN specific_command_mapping[name]
    ELSE IF Cardinality({n \in names : Stripped(n) = Stripped(name)}) = 1
              \/ IsAlnum(Head(name))
    THEN Stripped(name)
    ELSE <<PrefixToken(Head(name))>> \o Stripped(name)

create_name_map(meta_command) ==
    [name \in meta_command |-> PyName(name, meta_command)]

\* A name map made one command at a time, each command on its own.
NameMapPerCommand(meta) ==
    [name \in Keys(meta) |-> create_name_map({name})[name]]

\* Lines 157-163: the name map is made from all the names of the meta pass.
NameMapOf(meta) == create_name_map(Keys(meta))

\* --- write_source and its helpers ---
\* str.replace(old, new) on a text of one-character and word tokens.
Replace(s, old, new) ==
    [k \in 1..Len(s) |-> IF s[k] = old THEN new ELSE s[k]]

\* str.replace(old, "")
Delete(s, old) == SelectSeq(s, LAMBDA c : c # old)

\* str.title() on the words of the group strings.
TitleWord(w) ==
    CASE w = "PREP7" -> "Prep7"
      [] w = "SOLUTION" -> "Solution"
      [] OTHER -> w

Title(s) == [k \in 1..Len(s) |-> TitleWord(s[k])]

\* The renames of classes of the configuration.
specific_classes == [k \in {<<"Meshing">>} |-> <<"Meshing", Blank, "Controls">>]

\* Line 139 binds command.group to the list object terms[group[0]]; line 148
\* gives the command a list of its own.  The key of terms whose list the
\* group of the command is, or None.
GroupKey(command, files, tbl) ==
    LET get_group == files[command.xml_filename].ref.get_group
    IN  IF /\ command.group # NoGroup
           /\ Len(get_group) > 0
           /\ get_group[1] \in DOMAIN tbl
        THEN get_group[1]
        ELSE None

\* A get_module_info that cleans the list in place.
GroupCleanedInPlace(group) ==
    <<Lower(Replace(Delete(group[1], "/"), Blank, "_")), group[2]>>

\* Lines 340-342: command.group is unpacked into two names, and replace
\* and lower return new strings; the list is left as it was.
GroupAfterModuleInfo(group) == group

\* The table terms after get_module_info(library_path, command).
TermsAfterModuleInfo(command, files, tbl) ==
    LET key == GroupKey(command, files, tbl)
    IN  IF key = None THEN tbl
        ELSE [tbl EXCEPT ![key] = GroupAfterModuleInfo(tbl[key])]

\* get_module_info: the module name and the initial class name.
get_module_info(command) ==
    [module_name |-> Lower(Replace(Delete(command.group[1], "/"), Blank, "_")),
     initial_class_name |-> command.group[2]]

\* get_class_info: the class name and the file name.
get_class_info(initial_class_name) ==
    [class_name |-> Delete(Delete(Title(initial_class_name), Blank), "/"),
     file_name |-> Lower(Replace(Replace(initial_class_name, Blank, "_"),
                                 "/", "_"))]

\* os.path.join(module_path, f"{file_name}.py") below the library path.
ClassFilePath(module_name, file_name) ==
    module_name \o <<"/">> \o file_name \o <<".py">>

\* os.path.join(library_path, f"{python_name}.py")
MethodFilePath(python_name) == python_name \o <<".py">>

\* What to_python writes for a command: the method is known by its
\* identifier and by the file the command was read from.
Method(command, map) ==
    [py_name |-> map[command.name], xml_filename |-> command.xml_filename]

\* A structured loop that leaves out the names of SKIP_XML only.
SkippedByName(command) == command.name \in SKIP_XML

\* Line 483 of the structured loop.
SkippedStructured(command) ==
    command.name \in SKIP_XML \/ command.group = NoGroup

\* Line 464 of the unstructured loop.
SkippedUnstructured(initial_command_name) == initial_command_name \in SKIP_XML

CvFrame ==
    UNCHANGED <<verVars, linkVars, subVars, termVars, cacheVars, otherVars>>

\* Lines 105-115: the test of the directory and the empty list, for the
\* meta-only pass and for the full pass.
LoadCommandsStart ==
    /\ cv_pc \in {"meta", "full"}
    /\ cv_i = 0
    /\ IF cv_isdir
       THEN /\ cv_i' = 1
            /\ UNCHANGED <<cv_pc, cv_err>>
       ELSE /\ cv_pc' = "raised"
            /\ cv_err' = <<"FileNotFoundError">>
            /\ UNCHANGED cv_i
    /\ xml_commands' = <<>>
    /\ UNCHANGED <<cv_isdir, cv_files, command_map_meta, name_map,
                   command_map, writeVars>>
    /\ CvFrame

\* Lines 116-149: one iteration of the loop over the files.
LoadCommandsFile ==
    /\ cv_pc \in {"meta", "full"}
    /\ cv_i \in 1..Len(cv_files)
    /\ LET file == cv_files[cv_i]
           command == XMLCommand(cv_i, file)
           full == Classify(command, file.ref, terms)
       IN  IF ~file.refentry
           THEN UNCHANGED <<xml_commands, cv_pc, cv_err>>
           ELSE IF cv_pc = "meta"
           THEN /\ xml_commands' = Append(xml_commands, command)
                /\ UNCHANGED <<cv_pc, cv_err>>
           ELSE /\ xml_commands' = FullPassAppends(xml_commands, full)
                /\ IF full.err = None
                   THEN UNCHANGED <<cv_pc, cv_err>>
                   ELSE /\ cv_pc' = "raised"
                        /\ cv_err' = full.err
    /\ cv_i' = cv_i + 1
    /\ UNCHANGED <<cv_isdir, cv_files, command_map_meta, name_map,
                   command_map, writeVars>>
    /\ CvFrame

\* Line 151, and the statement of convert that takes the result: line 153
\* for the meta-only pass, line 177 for the full pass.
LoadCommandsReturn ==
    /\ cv_pc \in {"meta", "full"}
    /\ cv_i > Len(cv_files)
    /\ IF cv_pc = "meta"
       THEN /\ command_map_meta' = DictOfCommands(xml_commands)
            /\ cv_pc' = "name_map"
            /\ UNCHANGED command_map
       ELSE /\ command_map' = DictOfCommands(xml_commands)
            /\ cv_pc' = "converted"
            /\ UNCHANGED command_map_meta
    /\ UNCHANGED <<cv_isdir, cv_files, cv_i, cv_err, xml_commands, name_map,
                   writeVars>>
    /\ CvFrame

\* Lines 157-164.
CreateNameMap ==
    /\ cv_pc = "name_map"
    /\ name_map' = NameMapOf(command_map_meta)
    /\ cv_pc' = "full"
    /\ cv_i' = 0
    /\ UNCHANGED <<cv_isdir, cv_files, cv_err, xml_commands,
                   command_map_meta, command_map, writeVars>>
    /\ CvFrame

\* A template directory, by what copy_template_package looks at: whether
\* it has a top-level directory src, and whether it has doc/source/images.
Templates == [src : BOOLEAN, images : BOOLEAN]

PlainTemplate == [src |-> FALSE, images |-> FALSE]

\* The package directory write_source finds at new_package_path: none, or
\* the one an earlier structured run left, with the class file of a command
\* of the group Session / Run Controls and the copied images.
NoPackage == [dirs |-> {}, fs |-> EmptyDict, images |-> FALSE]

LeftPackage ==
    [dirs |-> {<<"session">>},
     fs |-> Put(EmptyDict, <<"session", "/", "run", "_", "controls", ".py">>,
                [header |-> <<"Run", "Controls">>,
                 methods |-> <<[py_name |-> <<"vget">>, xml_filename |-> 1]>>]),
     images |-> TRUE]

Packages == {NoPackage, LeftPackage}

\* Lines 437-462 and 479-481 of write_source, called on what convert
\* returned: shutil.rmtree clears the package directory when clean is set.
WriteSourceStart(structured, check_files, clean, package, template) ==
    /\ cv_pc = "converted"
    /\ cv_pc' = "write"
    /\ ws_structured' = structured
    /\ ws_check_files' = check_files
    /\ ws_clean' = clean
    /\ ws_template' = template
    /\ ws_i' = 1
    /\ ws_dirs' = IF clean THEN {} ELSE package.dirs
    /\ ws_fs' = IF clean THEN EmptyDict ELSE package.fs
    /\ ws_images' = IF clean THEN FALSE ELSE package.images
    /\ package_structure' = IF structured THEN EmptyDict ELSE None
    /\ UNCHANGED <<cv_isdir, cv_files, cv_i, cv_err, xml_commands,
                   command_map_meta, name_map, command_map>>
    /\ CvFrame

\* Lines 463-474: one iteration of the unstructured loop.  The file is
\* written, and then line 474 reads the local all_commands, which only line
\* 480 of the structured branch assigns.
WriteMethodFile(command) ==
    /\ IF SkippedUnstructured(command.name)
       THEN UNCHANGED <<ws_fs, cv_pc, cv_err>>
       ELSE /\ ws_fs' = Put(ws_fs, MethodFilePath(name_map[command.name]),
                            [header |-> None,
                             methods |-> <<Method(command, name_map)>>])
            /\ cv_pc' = "raised"
            /\ cv_err' = <<"UnboundLocalError">>
    /\ UNCHANGED <<ws_dirs, package_structure, terms>>

\* Lines 482-525: one iteration of the structured loop.
WriteClassMethod(command) ==
    IF SkippedStructured(command)
    THEN UNCHANGED <<ws_fs, ws_dirs, package_structure, cv_pc, cv_err, terms>>
    ELSE LET info == get_module_info(command)
             module_name == info.module_name
             structure == IF module_name \in ws_dirs THEN package_structure
                          ELSE Put(package_structure, module_name, EmptyDict)
             initial_class_name ==
                 DictGet(specific_classes, info.initial_class_name,
                         info.initial_class_name)
             class == get_class_info(initial_class_name)
             file_path == ClassFilePath(module_name, class.file_name)
             isfile == file_path \in DOMAIN ws_fs
             found == /\ module_name \in DOMAIN structure
                      /\ class.file_name \in DOMAIN structure[module_name]
             class_structure ==
                 Append(IF isfile THEN structure[module_name][class.file_name][2]
                        ELSE <<>>,
                        name_map[command.name])
             file == IF isfile THEN ws_fs[file_path]
                     ELSE [header |-> class.class_name, methods |-> <<>>]
         IN  /\ terms' = TermsAfterModuleInfo(command, cv_files, terms)
             /\ IF module_name \notin DOMAIN structure \/ (isfile /\ ~found)
                THEN /\ cv_pc' = "raised"
                     /\ cv_err' = <<"KeyError">>
                     /\ ws_fs' = IF isfile THEN ws_fs
                                 ELSE Put(ws_fs, file_path, file)
                     /\ UNCHANGED <<ws_dirs, package_structure>>
                ELSE /\ ws_dirs' = ws_dirs \cup {module_name}
                     /\ package_structure' =
                            Put(structure, module_name,
                                Put(structure[module_name], class.file_name,
                                    <<class.class_name, class_structure>>))
                     /\ ws_fs' = Put(ws_fs, file_path,
                                     [file EXCEPT !.methods =
                                         Append(@, Method(command, name_map))])
                     /\ UNCHANGED <<cv_pc, cv_err>>

WriteCommand ==
    /\ cv_pc = "write"
    /\ ws_i \in 1..Len(command_map)
    /\ IF ws_structured
       THEN WriteClassMethod(command_map[ws_i])
       ELSE WriteMethodFile(command_map[ws_i])
    /\ ws_i' = ws_i + 1
    /\ UNCHANGED <<cv_isdir, cv_files, cv_i, xml_commands, command_map_meta,
                   name_map, command_map, ws_structured, ws_check_files,
                   ws_clean, ws_template, ws_images>>
    /\ UNCHANGED <<lt_fs, lt_pc, lt_err, docu_global>>
    /\ UNCHANGED <<verVars, linkVars, subVars, cacheVars, otherVars>>

\* `path` lies in the directory `dir`.
Under(path, dir) ==
    /\ Len(path) > Len(dir) + 1
    /\ SubSeq(path, 1, Len(dir)) = dir
    /\ path[Len(dir) + 1] = "/"

\* write_global__init__file and write__init__file, lines 241-298: the
\* __init__.py of the library and of every module directory that has files.
InitFiles(dirs, fs) ==
    [path \in {<<"__init__", ".py">>}
              \cup {d \o <<"/", "__init__", ".py">> :
                       d \in {x \in dirs : \E p \in DOMAIN fs : Under(p, x)}} |->
        [header |-> None, methods |-> <<>>]]

\* copy_template_package(template_path, new_package_path, clean), lines
\* 225-238.  The library path starts with src (lines 321-324), so
\* new_package_path/src is a directory: a template that has the directory
\* src finds it, and with clean removes it and all that is below it
\* before it copies its own.
CopyTemplatePackage(template, clean, package) ==
    [dirs |-> IF template.src /\ clean THEN {} ELSE package.dirs,
     fs |-> IF template.src /\ clean THEN EmptyDict ELSE package.fs,
     images |-> package.images \/ template.images]

\* Lines 527-552: after the loop.  check_structure_map is left at its
\* default; check_files walks package_structure.keys(); the __init__ files
\* are written; the template is copied; shutil.copytree copies the graphics
\* to doc/source/images, which must not exist.
WriteSourceReturn ==
    /\ cv_pc = "write"
    /\ ws_i > Len(command_map)
    /\ IF ws_check_files /\ ~ws_structured
       THEN /\ cv_pc' = "raised"
            /\ cv_err' = <<"AttributeError">>
            /\ UNCHANGED <<ws_dirs, ws_fs, ws_images>>
       ELSE LET copied ==
                    CopyTemplatePackage(
                        ws_template, ws_clean,
                        [dirs |-> ws_dirs,
                         fs |-> Update(ws_fs, InitFiles(ws_dirs, ws_fs)),
                         images |-> ws_images])
            IN  /\ ws_dirs' = copied.dirs
                /\ ws_fs' = copied.fs
                /\ ws_images' = TRUE
                /\ IF copied.images
                   THEN /\ cv_pc' = "raised"
                        /\ cv_err' = <<"FileExistsError">>
                   ELSE /\ cv_pc' = "written"
                        /\ UNCHANGED cv_err
    /\ UNCHANGED <<cv_isdir, cv_files, cv_i, xml_commands, command_map_meta,
                   name_map, command_map, ws_structured, ws_check_files,
                   ws_clean, ws_template, ws_i, package_structure>>
    /\ CvFrame

\* write_docs, lines 620-661: the index file of each module and the page
\* of each class file, with the class name and the method list that
\* package_structure records.  The order of the listings is not kept.
DocFiles(structure) ==
    LET pages == UNION {{<<m, f>> : f \in DOMAIN structure[m]} :
                           m \in DOMAIN structure}
        DocPath(p) == <<"doc/source/">> \o p[1] \o <<"/">> \o p[2] \o <<".rst">>
        IndexPath(m) == <<"doc/source/">> \o m \o <<"/", "index", ".rst">>
    IN  [path \in {DocPath(p) : p \in pages}
                  \cup {IndexPath(m) : m \in DOMAIN structure}
                  \cup {<<"doc/source/", "docs", ".rst">>} |->
            IF \E p \in pages : path = DocPath(p)
            THEN LET p == CHOOSE q \in pages : path = DocPath(q)
                 IN  [header |-> structure[p[1]][p[2]][1],
                      methods |-> structure[p[1]][p[2]][2]]
            ELSE [header |-> None, methods |-> <<>>]]

\* write_docs(package_path, package_structure), lines 597-663, called on
\* what write_source returned: package_structure.keys() at line 610 fails
\* on the None an unstructured run returns.
WriteDocs ==
    /\ cv_pc = "written"
    /\ IF ~ws_structured
       THEN /\ cv_pc' = "raised"
            /\ cv_err' = <<"AttributeError">>
            /\ UNCHANGED ws_fs
       ELSE /\ cv_pc' = "documented"
            /\ ws_fs' = Update(ws_fs, DocFiles(package_structure))
            /\ UNCHANGED cv_err
    /\ UNCHANGED <<cv_isdir, cv_files, cv_i, xml_commands, command_map_meta,
                   name_map, command_map, ws_structured, ws_check_files,
                   ws_clean, ws_template, ws_images, ws_i, ws_dirs,
                   package_structure>>
    /\ CvFrame

CvInit ==
    /\ cv_isdir \in BOOLEAN
    /\ cv_files \in XmlDirs
    /\ ~cv_isdir => cv_files = <<>>
    /\ cv_pc = "meta"
    /\ cv_i = 0
    /\ cv_err = None
    /\ xml_commands = <<>>
    /\ command_map_meta = <<>>
    /\ name_map = EmptyDict
    /\ command_map = <<>>
    /\ ws_structured = FALSE
    /\ ws_check_files = FALSE
    /\ ws_clean = FALSE
    /\ ws_template = PlainTemplate
    /\ ws_images = FALSE
    /\ ws_i = 1
    /\ ws_dirs = {}
    /\ ws_fs = EmptyDict
    /\ package_structure = EmptyDict

CvIdle ==
    /\ cv_isdir = FALSE
    /\ cv_files = <<>>
    /\ cv_pc = "idle"
    /\ cv_i = 0
    /\ cv_err = None
    /\ xml_commands = <<>>
    /\ command_map_meta = <<>>
    /\ name_map = EmptyDict
    /\ command_map = <<>>
    /\ ws_structured = FALSE
    /\ ws_check_files = FALSE
    /\ ws_clean = FALSE
    /\ ws_template = PlainTemplate
    /\ ws_images = FALSE
    /\ ws_i = 1
    /\ ws_dirs = {}
    /\ ws_fs = EmptyDict
    /\ package_structure = EmptyDict

\* convert has the tables of load_links, load_fcache and load_terms,
\* lines 76-79.
CvLinksGiven ==
    /\ lk_files = <<>>
    /\ lk_i = 1
    /\ lk_links = Put(EmptyDict, <<"p1">>, LinkEntry)
    /\ lk_pc = "returned"

CvFcacheGiven ==
    /\ fc_dir = <<>>
    /\ fc_i = 1
    /\ fcache = Put(EmptyDict, WithSuffixEmpty(APng), APng)
    /\ fc_pc = "returned"

LtGiven ==
    /\ lt_fs = EmptyDict
    /\ lt_pc = "returned"
    /\ lt_err = None
    /\ docu_global = EmptyDict
    /\ terms = ConvertTerms

CvNext ==
    \/ LoadCommandsStart
    \/ LoadCommandsFile
    \/ LoadCommandsReturn
    \/ CreateNameMap
    \* clean at its default, no earlier package, a template of files only
    \/ \E structured, check_files \in BOOLEAN :
          WriteSourceStart(structured, check_files, TRUE, NoPackage,
                           PlainTemplate)
    \/ WriteCommand
    \/ WriteSourceReturn
    \/ WriteDocs

(***************************************************************************)
(* writer.py: convert run twice on one unchanged directory                 *)
(*                                                                         *)
(* load_commands takes the files in the order glob.glob gives them and     *)
(* does not sort them; glob returns its results in arbitrary order.        *)
(***************************************************************************)
\* The orders glob.glob may give n files in: the permutations of 1..n.
GlobOrders(n) ==
    {order \in [1..n -> 1..n] : \A i, j \in 1..n : order[i] = order[j] => i = j}

\* Lines 116-149 as a function of the files in the order of the scan: the
\* commands appended, and the exception that ended the scan, if any.
RECURSIVE LoadCommandsScan(_, _, _, _)
LoadCommandsScan(dir, order, meta_only, tbl) ==
    IF order = <<>> THEN [err |-> None, xml_commands |-> <<>>]
    ELSE LET before == LoadCommandsScan(dir, SubSeq(order, 1, Len(order) - 1),
                                        meta_only, tbl)
             i == order[Len(order)]
             command == XMLCommand(i, dir[i])
             full == Classify(command, dir[i].ref, tbl)
         IN  IF before.err # None \/ ~dir[i].refentry THEN before
             ELSE IF meta_only
             THEN [before EXCEPT !.xml_commands = Append(@, command)]
             ELSE [err |-> full.err,
                   xml_commands |-> FullPassAppends(before.xml_commands, full)]

\* convert(directory_path), lines 153-179: the exception, or for every
\* command of command_map its name, group, archived flag and identifier.
ConvertResult(dir, order, tbl) ==
    LET meta == LoadCommandsScan(dir, order, TRUE, tbl)
        map == NameMapOf(DictOfCommands(meta.xml_commands))
        full == LoadCommandsScan(dir, order, FALSE, tbl)
        commands == DictOfCommands(full.xml_commands)
    IN  IF full.err # None THEN [err |-> full.err, commands |-> {}]
        ELSE [err |-> None,
              commands |-> {[name |-> commands[k].name,
                             group |-> commands[k].group,
                             is_archived |-> commands[k].is_archived,
                             py_name |-> map[commands[k].name]] :
                            k \in 1..Len(commands)}]

RrFrame ==
    UNCHANGED <<verVars, linkVars, subVars, termVars, cacheVars, convVars,
                writeVars, pkgVars>>

\* One run of convert on the directory.
ConvertRun ==
    /\ Len(rr_results) < 2
    /\ \E order \in GlobOrders(Len(rr_dir)) :
          rr_results' = Append(rr_results, ConvertResult(rr_dir, order, terms))
    /\ UNCHANGED rr_dir
    /\ RrFrame

RrInit ==
    /\ rr_dir \in XmlDirs
    /\ rr_results = <<>>

RrIdle ==
    /\ rr_dir = <<>>
    /\ rr_results = <<>>

RrNext == ConvertRun

(***************************************************************************)
(* cli.py: create_package, with the parts of write_source and write_docs   *)
(* that choose the template and the package directory                      *)
(***************************************************************************)
\* os.path.join
Join(a, b) == a \o <<"/">> \o b

Cwd == <<"cwd">>
XmlDir == <<"xml">>
FuncDir == <<"func">>
OutDir == <<"out">>
NoDir == <<"missing">>
MyTemplate == <<"my_template">>

\* os.path.join(os.getcwd(), "_package")
DefaultTemplate == Join(Cwd, <<"_package">>)

\* The directories that exist before the call, cwd/_package apart.
IsDir(path) == path \in {Cwd, XmlDir, FuncDir, OutDir, MyTemplate}

PackageArgs ==
    [xml_path : {None, XmlDir, NoDir}, XML_PATH : {None, XmlDir},
     functions_path : {None, FuncDir, NoDir}, target_path : {None, OutDir},
     template_path : {None, MyTemplate}]

PackageNames == {<<"package">>, <<"generated">>}

\* The template_path create_package hands to write_source: lines 96-98
\* pass five positional arguments, none of them the template.
TemplateArgument(args) == None

\* write_source, lines 442-446: the template it will copy.
TemplateOf(template_path) ==
    IF template_path = None THEN DefaultTemplate ELSE template_path

CpFrame ==
    UNCHANGED <<verVars, linkVars, subVars, termVars, cacheVars, convVars,
                writeVars, rerunVars>>

CpRaise(error) ==
    /\ cp_pc' = "raised"
    /\ cp_err' = error

\* Lines 55-66.
CpXmlPath ==
    /\ cp_pc = "xml_path"
    /\ LET xml_path == IF cp_args.xml_path = None THEN cp_args.XML_PATH
                       ELSE cp_args.xml_path
       IN  IF xml_path = None
           THEN CpRaise(<<"RuntimeError">>) /\ UNCHANGED cp_xml_path
           ELSE IF ~IsDir(xml_path)
           THEN CpRaise(<<"FileExistsError">>) /\ cp_xml_path' = xml_path
           ELSE /\ cp_pc' = "functions_path"
                /\ cp_xml_path' = xml_path
                /\ UNCHANGED cp_err
    /\ UNCHANGED <<cp_args, cp_new_package_name, cp_default_template,
                   cp_target_path, cp_template_path, cp_copied,
                   cp_new_package_path, cp_docs_path>>
    /\ CpFrame

\* Lines 68-89: the functions path is checked, the target path defaults to
\* the working directory.
CpPaths ==
    /\ cp_pc = "functions_path"
    /\ IF cp_args.functions_path # None /\ ~IsDir(cp_args.functions_path)
       THEN CpRaise(<<"FileExistsError">>) /\ UNCHANGED cp_target_path
       ELSE /\ cp_pc' = "template"
            /\ cp_target_path' = IF cp_args.target_path = None THEN Cwd
                                 ELSE cp_args.target_path
            /\ UNCHANGED cp_err
    /\ UNCHANGED <<cp_args, cp_new_package_name, cp_default_template,
                   cp_xml_path, cp_template_path, cp_copied,
                   cp_new_package_path, cp_docs_path>>
    /\ CpFrame

\* Lines 91-95: the default template is downloaded when no template is
\* given and cwd/_package is missing; then convert runs.
CpTemplate ==
    /\ cp_pc = "template"
    /\ cp_default_template' =
           (cp_default_template \/ cp_args.template_path = None)
    /\ cp_pc' = "write_source"
    /\ UNCHANGED <<cp_args, cp_new_package_name, cp_err, cp_xml_path,
                   cp_target_path, cp_template_path, cp_copied,
                   cp_new_package_path, cp_docs_path>>
    /\ CpFrame

\* Lines 96-98, with write_source's lines 442-450 and 549: the template is
\* found (downloaded if it is the default and is missing), the package
\* path is made of the target path and the configured name, the sources
\* are written and the template is copied into the package.
CpWriteSource ==
    /\ cp_pc = "write_source"
    /\ LET template_path == TemplateOf(TemplateArgument(cp_args))
       IN  /\ cp_template_path' = template_path
           /\ cp_default_template' =
                  (cp_default_template \/ template_path = DefaultTemplate)
           /\ cp_copied' = template_path
    /\ cp_new_package_path' = Join(cp_target_path, cp_new_package_name)
    /\ cp_pc' = "write_docs"
    /\ UNCHANGED <<cp_args, cp_new_package_name, cp_err, cp_xml_path,
                   cp_target_path, cp_docs_path>>
    /\ CpFrame

\* Lines 99-100, with write_docs' line 581.
CpWriteDocs ==
    /\ cp_pc = "write_docs"
    /\ cp_docs_path' = Join(cp_target_path, <<"package">>)
    /\ cp_pc' = "done"
    /\ UNCHANGED <<cp_args, cp_new_package_name, cp_default_template, cp_err,
                   cp_xml_path, cp_target_path, cp_template_path, cp_copied,
                   cp_new_package_path>>
    /\ CpFrame

CpInit ==
    /\ cp_args \in PackageArgs
    /\ cp_new_package_name \in PackageNames
    /\ cp_default_template \in BOOLEAN
    /\ cp_pc = "xml_path"
    /\ cp_err = None
    /\ cp_xml_path = None
    /\ cp_target_path = None
    /\ cp_template_path = None
    /\ cp_copied = None
    /\ cp_new_package_path = None
    /\ cp_docs_path = None

CpNext == CpXmlPath \/ CpPaths \/ CpTemplate \/ CpWriteSource \/ CpWriteDocs

CpIdle ==
    /\ cp_args = EmptyDict
    /\ cp_new_package_name = None
    /\ cp_default_template = FALSE
    /\ cp_pc = "idle"
    /\ cp_err = None
    /\ cp_xml_path = None
    /\ cp_target_path = None
    /\ cp_template_path = None
    /\ cp_copied = None
    /\ cp_new_package_path = None
    /\ cp_docs_path = None

(***************************************************************************)
(* writer.py: write_source and write_docs on what convert returned, for    *)
(* every clean flag, package directory and template                        *)
(***************************************************************************)
\* The class strings of the commands: the group code of Session / Run
\* Controls, the excluded code, and PREP7 with the types Meshing (renamed
\* by specific_classes to "Meshing Controls") and Meshing_Controls, the
\* first also under the module string /PREP7.
WriteRefs ==
    {RefGroup(<<"xtybasic">>),
     RefGroup(<<"xtycadimport">>),
     Ref(<<>>, <<<<"PREP7">>>>, <<<<"Meshing">>>>, <<>>),
     Ref(<<>>, <<<<"PREP7">>>>, <<<<"Meshing", "_", "Controls">>>>, <<>>),
     Ref(<<>>, <<<<"/", "PREP7">>>>, <<<<"Meshing">>>>, <<>>)}

WriteNames == {<<"VGET">>, <<"*", "VGET">>, <<"*", "IF">>}

\* The directories of command files with distinct command names.
WriteDirs ==
    {q \in SeqsUpTo([refentry : {TRUE}, name : WriteNames, ref : WriteRefs],
                    MaxXmlFiles) : DistinctNames(q)}

\* convert has returned command_map and name_map, lines 153-179.
WsInit ==
    /\ cv_isdir = TRUE
    /\ cv_files \in WriteDirs
    /\ LET order == [i \in 1..Len(cv_files) |-> i]
           meta == LoadCommandsScan(cv_files, order, TRUE, ConvertTerms)
           full == LoadCommandsScan(cv_files, order, FALSE, ConvertTerms)
       IN  /\ xml_commands = full.xml_commands
           /\ command_map_meta = DictOfCommands(meta.xml_commands)
           /\ name_map = NameMapOf(DictOfCommands(meta.xml_commands))
           /\ command_map = DictOfCommands(full.xml_commands)
    /\ cv_pc = "converted"
    /\ cv_i = Len(cv_files) + 1
    /\ cv_err = None
    /\ ws_structured = FALSE
    /\ ws_check_files = FALSE
    /\ ws_clean = FALSE
    /\ ws_template = PlainTemplate
    /\ ws_images = FALSE
    /\ ws_i = 1
    /\ ws_dirs = {}
    /\ ws_fs = EmptyDict
    /\ package_structure = EmptyDict

WsNext ==
    \/ \E structured, check_files, clean \in BOOLEAN :
          \E package \in Packages, template \in Templates :
             WriteSourceStart(structured, check_files, clean, package,
                              template)
    \/ WriteCommand
    \/ WriteSourceReturn
    \/ WriteDocs

InitVersion ==
    VcInit /\ LkIdle /\ TrIdle /\ LtIdle /\ FcIdle /\ CvIdle
    /\ RrIdle /\ CpIdle

SpecVersion == InitVersion /\ [][VcNext]_vars

InitLinks ==
    LkInit /\ VcIdle /\ TrIdle /\ LtIdle /\ FcIdle /\ CvIdle
    /\ RrIdle /\ CpIdle

SpecLinks == InitLinks /\ [][LkNext]_vars

InitReplace ==
    TrInit /\ VcIdle /\ LkIdle /\ LtIdle /\ FcIdle /\ CvIdle
    /\ RrIdle /\ CpIdle

SpecReplace == InitReplace /\ [][TrNext]_vars

InitTerms ==
    LtInit /\ VcInit /\ LkGiven /\ TrIdle /\ FcIdle /\ CvIdle
    /\ RrIdle /\ CpIdle

SpecTerms == InitTerms /\ [][LtNext]_vars

InitFcache ==
    FcInit /\ VcIdle /\ LkIdle /\ TrIdle /\ LtIdle /\ CvIdle
    /\ RrIdle /\ CpIdle

SpecFcache == InitFcache /\ [][FcNext]_vars

InitConvert ==
    CvInit /\ VcIdle /\ CvLinksGiven /\ TrIdle /\ LtGiven /\ CvFcacheGiven
    /\ RrIdle /\ CpIdle

SpecConvert == InitConvert /\ [][CvNext]_vars

InitRerun ==
    RrInit /\ VcIdle /\ LkIdle /\ TrIdle /\ LtGiven /\ FcIdle /\ CvIdle
    /\ CpIdle

SpecRerun == InitRerun /\ [][RrNext]_vars

InitPackage ==
    CpInit /\ VcIdle /\ LkIdle /\ TrIdle /\ LtIdle /\ FcIdle /\ CvIdle
    /\ RrIdle

SpecPackage == InitPackage /\ [][CpNext]_vars

InitWrite ==
    WsInit /\ VcIdle /\ CvLinksGiven /\ TrIdle /\ LtGiven /\ CvFcacheGiven
    /\ RrIdle /\ CpIdle

SpecWrite == InitWrite /\ [][WsNext]_vars

\* C1: after `version = v` on a constructed object, base_url contains
\* "v" + v and cmd_base_url equals base_url + "/ans_cmd/".
C1_VersionMutation ==
    vc_last[1] = "version" =>
        /\ Contains(_base_url, <<"v">> \o vc_last[2])
        /\ _cmd_base_url = CmdUrl(_base_url)

\* C2: for every link-table file that parses, every node carrying both
\* targetptr and href has an entry keyed by its targetptr that holds its own
\* href (one entry per pointer), and every entry's pointer and href sit
\* together on one node.
NodesWithBoth(t) ==
    {n \in 1..Len(t) : t[n].kind = "elem" /\ t[n].targetptr # None
                       /\ t[n].href # None}

C2_LinksOfOwnNode ==
    (lk_pc = "returned" /\ lk_files[1].parsed) =>
        LET t == lk_files[1].tree IN
        /\ \A n \in NodesWithBoth(t) : t[n].targetptr \in DOMAIN lk_links
        /\ \A n \in NodesWithBoth(t) :
              (\A m \in NodesWithBoth(t) :
                    t[m].targetptr = t[n].targetptr => m = n)
              => lk_links[t[n].targetptr][3] = t[n].href
        /\ \A p \in DOMAIN lk_links :
              \E n \in NodesWithBoth(t) :
                  t[n].targetptr = p /\ t[n].href = lk_links[p][3]

\* The text with every occurrence of &me; replaced by the literal and all
\* the rest kept as written.
RECURSIVE MeReplaced(_)
MeReplaced(s) ==
    IF s = <<>> THEN <<>>
    ELSE IF Len(s) >= 3 /\ SubSeq(s, 1, 3) = RefMe
    THEN AnsysMechanical \o MeReplaced(SubSeq(s, 4, Len(s)))
    ELSE <<Head(s)>> \o MeReplaced(Tail(s))

\* C3: with "me" a term and not a documentation entity, every occurrence of
\* &me; in a text becomes "Ansys Mechanical", whatever follows it, and a
\* reference to a name in no table stays as written.
C3_EntitySubstitution ==
    (tr_pc = "returned" /\ ~Contains(tr_text, RefDocu)) =>
        tr_out = MeReplaced(tr_text)

\* What the resolution order gives for a reference standing alone.
Resolved(name, env) ==
    LET ref == <<"&">> \o name \o <<";">>
    IN  IF name \in DOMAIN env.docu_global
           /\ env.docu_global[name][2] \in DOMAIN env.links
        THEN LET e == env.links[env.docu_global[name][2]]
             IN  CrossLink(DictGet(env.terms, env.docu_global[name][3], e[2]),
                           SubBaseUrl, e[1], e[3])
        ELSE IF name \in DOMAIN env.terms THEN env.terms[name]
        ELSE ref

\* C4: a reference &name; becomes a cross-link when docu_global lists the
\* name and links holds its pointer; otherwise it is resolved against terms,
\* and a reference that resolves neither way stays in the text as written.
C4_ResolutionOrder ==
    \A name \in {<<"me">>, <<"unknown">>, <<"dg">>} :
        (tr_pc = "returned" /\ tr_text = <<"&">> \o name \o <<";">>) =>
            tr_out = Resolved(name, tr_env)

\* The names of the entries of the directory.
GraphicFileNames == {fc_dir[i].name : i \in 1..Len(fc_dir)}

\* C5 as stated: the cache returned maps the base name of every file of the
\* directory to that file's full name, and no cache is returned when an
\* entry is not a regular file.
C5_EveryFileCached ==
    fc_pc = "returned" =>
        /\ \A i \in 1..Len(fc_dir) : fc_dir[i].is_file
        /\ \A n \in GraphicFileNames :
              /\ WithSuffixEmpty(n) \in DOMAIN fcache
              /\ fcache[WithSuffixEmpty(n)] = n

\* C5, amended: the keys are the base names of the files; a key holds the
\* full name of the last file scanned that has this base name, which is the
\* file's own name when its base name is unique; {a.png, b.jpg} gives
\* {"a": "a.png", "b": "b.jpg"}; no cache is returned when an entry is not
\* a regular file.
C5_LastFileCached ==
    /\ fc_pc = "returned" =>
          /\ \A i \in 1..Len(fc_dir) : fc_dir[i].is_file
          /\ DOMAIN fcache = {WithSuffixEmpty(n) : n \in GraphicFileNames}
          /\ \A i \in 1..Len(fc_dir) :
                (\A j \in (i + 1)..Len(fc_dir) :
                      WithSuffixEmpty(fc_dir[j].name)
                          # WithSuffixEmpty(fc_dir[i].name))
                => fcache[WithSuffixEmpty(fc_dir[i].name)] = fc_dir[i].name
          /\ GraphicFileNames = {APng, BJpg} =>
                fcache = [k \in {<<"a">>, <<"b">>} |->
                             IF k = <<"a">> THEN APng ELSE BJpg]
          /\ ATarGz \in GraphicFileNames => <<"a", ".", "tar">> \in DOMAIN fcache
          /\ DotFile \in GraphicFileNames => fcache[DotFile] = DotFile
    /\ fc_pc = "raised" => ~fc_dir[fc_i - 1].is_file

\* A scan that returned a cache of two files with one base name and a third
\* file.
C5_Witness ==
    /\ fc_pc = "returned"
    /\ {APng, AJpg, BJpg} \subseteq GraphicFileNames
    /\ fcache[<<"b">>] = BJpg

\* The files of the directory that are reference entries.
Refentries == {i \in 1..Len(cv_files) : cv_files[i].refentry}

\* C6: the name map convert builds from the meta-only pass gives distinct
\* identifiers to distinct command names; /GCOLUMN alone becomes gcolumn,
\* VGET and *VGET become vget and star_vget.
C6_NameMapInjective ==
    cv_pc \in {"full", "converted", "write", "written"} =>
        /\ DOMAIN name_map = {cv_files[i].name : i \in Refentries}
        /\ \A a, b \in DOMAIN name_map : name_map[a] = name_map[b] => a = b
        /\ (<<"/", "GCOLUMN">> \in DOMAIN name_map
            => name_map[<<"/", "GCOLUMN">>] = <<"gcolumn">>)
        /\ ({<<"VGET">>, <<"*", "VGET">>} \subseteq DOMAIN name_map
            => /\ name_map[<<"VGET">>] = <<"vget">>
               /\ name_map[<<"*", "VGET">>] = <<"star_", "vget">>)

\* A run whose directory holds VGET and *VGET and whose name map is built.
C6_Witness ==
    /\ cv_pc = "converted"
    /\ DOMAIN name_map = {<<"VGET">>, <<"*", "VGET">>}
    /\ name_map[<<"*", "VGET">>] = <<"star_", "vget">>

\* What each source supplies on its own.
VariableTerms == VariableStage(EmptyDict, lt_fs.variable)
GlobalTerms == GlobalStage(EmptyDict, lt_fs.global)
LaterKeys ==
    DOMAIN ManualStage(EmptyDict, lt_fs.manual, EmptyDict, EmptyDict, <<>>)
    \cup DOMAIN CharStage(EmptyDict, lt_fs.chars)
    \cup DOMAIN GroupStage(EmptyDict, lt_fs.groups)

\* C7 as stated: the returned table holds for a key the hand-coded value if
\* the block sets it, else the terms_global.ent value if that file defines
\* it, else the variable term.
C7_ThreeSourcesDecide ==
    lt_pc = "returned" =>
        \A k \in DOMAIN VariableTerms \cup DOMAIN GlobalTerms \cup HandCodedKeys :
            /\ k \in DOMAIN terms
            /\ terms[k] = IF k \in HandCodedKeys THEN HandCoded[k]
                          ELSE IF k \in DOMAIN GlobalTerms THEN GlobalTerms[k]
                          ELSE VariableTerms[k]

\* C7, amended: among the variable terms, the global terms of terms_global.ent and
\* the hand-coded block, the returned table holds for a key the hand-coded
\* value if the block sets it, else the terms_global.ent value if that file
\* defines it, else the variable term (keys that the manuals, the character
\* entities or the group codes define as well are theirs).
C7_TermPrecedence ==
    lt_pc = "returned" =>
        \A k \in (DOMAIN VariableTerms \cup DOMAIN GlobalTerms
                  \cup HandCodedKeys) \ LaterKeys :
            /\ k \in DOMAIN terms
            /\ terms[k] = IF k \in HandCodedKeys THEN HandCoded[k]
                          ELSE IF k \in DOMAIN GlobalTerms THEN GlobalTerms[k]
                          ELSE VariableTerms[k]

\* A load that returned where terms_global.ent defines the hand-coded key
\* sgr, and where build_variables.ent and terms_global.ent give the key me
\* two different values.
C7_Witness ==
    /\ lt_pc = "returned"
    /\ <<"sgr">> \in DOMAIN GlobalTerms \ LaterKeys
    /\ GlobalTerms[<<"sgr">>] # HandCoded[<<"sgr">>]
    /\ <<"me">> \in (DOMAIN GlobalTerms \cap DOMAIN VariableTerms) \ LaterKeys
    /\ GlobalTerms[<<"me">>] # VariableTerms[<<"me">>]

\* The keys the files that exist define, and the hand-coded ones.
SuppliedKeys ==
    (IF lt_fs.variable.exists THEN DOMAIN VariableTerms ELSE {})
    \cup DOMAIN GlobalTerms \cup HandCodedKeys \cup LaterKeys

\* C8: no load fails because docu_global.ent, the variable-terms file, the
\* global-terms file, the manuals file, the character-entity directory or
\* the group-code file is absent, and an absent source adds no entry to the
\* returned table.
C8_MissingFilesTolerated ==
    /\ lt_err # <<"FileNotFoundError">>
    /\ lt_pc = "returned" => DOMAIN terms \subseteq SuppliedKeys

\* A file load_commands cannot classify: its group code is not a key of the
\* term table, or its class string has no class name or no type name.
Unclassifiable(file) ==
    /\ file.refentry
    /\ Classify(XMLCommand(0, file), file.ref, terms).err # None

\* C9: a file that cannot be classified is dropped alone: load_commands
\* does not end on its KeyError or IndexError, and the mapping the full pass
\* returns holds the command of every other reference entry.
C9_FailureIsolated ==
    /\ cv_err \notin {<<"KeyError">>, <<"IndexError">>}
    /\ cv_pc = "converted" =>
          \A i \in Refentries :
              ~Unclassifiable(cv_files[i])
                  => cv_files[i].name \in Keys(command_map)

\* The files whose class string carries the excluded group code.
CadImports ==
    {i \in Refentries : cv_files[i].ref.get_group = <<<<"xtycadimport">>>>}

\* C10: no file write_source writes, structured or not, holds a method of a
\* command read from a file with the excluded group code.
C10_ExcludedNotWritten ==
    \A path \in DOMAIN ws_fs :
        \A k \in 1..Len(ws_fs[path].methods) :
            ws_fs[path].methods[k].xml_filename \notin CadImports

\* The class string of the file a command was read from.
RefOf(command) == cv_files[command.xml_filename].ref

\* C11: in the mapping of the full pass, a command whose class string has a
\* group code other than the excluded one has the group terms[group code]
\* and is not archived; every other command is archived and has the group
\* [first class name, type name], the type name found by the two-option
\* pattern when there are two class names and by the one-option pattern
\* otherwise.
C11_Classification ==
    cv_pc = "converted" =>
        \A k \in 1..Len(command_map) :
            LET command == command_map[k]
                ref == RefOf(command)
            IN  IF /\ Len(ref.get_group) > 0
                   /\ ref.get_group[1] # <<"xtycadimport">>
                THEN /\ ~command.is_archived
                     /\ ref.get_group[1] \in DOMAIN terms
                     /\ command.group = terms[ref.get_group[1]]
                ELSE /\ command.is_archived
                     /\ Len(ref.get_classname) > 0
                     /\ command.group[1] = ref.get_classname[1]
                     /\ LET typenames == IF Len(ref.get_classname) = 2
                                          THEN ref.get_typename_2opt
                                          ELSE ref.get_typename_1opt
                        IN  /\ Len(typenames) > 0
                            /\ command.group[2] = typenames[1]

\* Where the method of a command is found in the files written.
PlacesOf(command) ==
    UNION {{<<path, j>> : j \in {i \in 1..Len(ws_fs[path].methods) :
                ws_fs[path].methods[i].xml_filename = command.xml_filename}} :
           path \in DOMAIN ws_fs}

\* The classes of package_structure: module name and file name.
ClassesOf(structure) ==
    UNION {{<<m, f>> : f \in DOMAIN structure[m]} : m \in DOMAIN structure}

\* How many times an identifier is listed in the classes of the structure.
ListedIn(structure, class, py_name) ==
    Cardinality({i \in 1..Len(structure[class[1]][class[2]][2]) :
                    structure[class[1]][class[2]][2][i] = py_name})

\* The class a command belongs to by its group: module from group[0],
\* class from group[1] after the renaming of specific_classes.
ClassOfGroup(command) ==
    LET info == get_module_info(command)
        renamed == DictGet(specific_classes, info.initial_class_name,
                           info.initial_class_name)
    IN  <<info.module_name, get_class_info(renamed).file_name>>

\* C12: in a structured write_source on a clean package directory, every
\* command written so far that is not in SKIP_XML and has a group has one
\* method, in the file of the class of its group, and is listed once in
\* package_structure, in that class; a command in SKIP_XML or without group
\* has no method and is listed nowhere; the files written, the __init__.py
\* files aside, are the classes of package_structure, one file for each.
C12_OneMethodPerCommand ==
    (cv_pc \in {"write", "written"} /\ ws_structured) =>
        /\ \A k \in 1..(ws_i - 1) :
              LET command == command_map[k]
                  py_name == name_map[command.name]
                  listed == {c \in ClassesOf(package_structure) :
                                ListedIn(package_structure, c, py_name) > 0}
              IN  IF command.name \in SKIP_XML \/ command.group = NoGroup
                  THEN PlacesOf(command) = {} /\ listed = {}
                  ELSE LET class == ClassOfGroup(command)
                       IN  /\ Cardinality(PlacesOf(command)) = 1
                           /\ \A place \in PlacesOf(command) :
                                 place[1] = ClassFilePath(class[1], class[2])
                           /\ listed = {class}
                           /\ ListedIn(package_structure, class, py_name) = 1
        /\ DOMAIN ws_fs \ DOMAIN InitFiles(ws_dirs, ws_fs) =
              {ClassFilePath(c[1], c[2]) : c \in ClassesOf(package_structure)}
        /\ \A c, d \in ClassesOf(package_structure) :
              ClassFilePath(c[1], c[2]) = ClassFilePath(d[1], d[2]) => c = d
        /\ \A path \in DOMAIN ws_fs :
              \A j \in 1..Len(ws_fs[path].methods) :
                  \E k \in 1..(ws_i - 1) :
                      <<path, j>> \in PlacesOf(command_map[k])

\* A structured run that has written the method of one command, after a
\* command without group.
C12_Witness ==
    /\ cv_pc = "written"
    /\ ws_structured
    /\ Len(command_map) = 2
    /\ command_map[1].group = NoGroup
    /\ Cardinality(PlacesOf(command_map[2])) = 1

\* C13: two runs of convert on the same unchanged directory and tables give
\* the same command names, the same group and archived flag for every
\* command and the same identifiers, when both runs return.
C13_SameResultTwice ==
    (/\ Len(rr_results) = 2
     /\ rr_results[1].err = None
     /\ rr_results[2].err = None)
    => rr_results[1].commands = rr_results[2].commands

\* C14: load_commands ends on FileNotFoundError exactly when xml_path is
\* not a directory, and then before any file is scanned; on a directory it
\* ends on no exception of its own, a file that is no reference entry adds
\* nothing, and the mapping each pass returns has a command under the name
\* of every reference entry.
C14_DirectoryScan ==
    /\ cv_err = <<"FileNotFoundError">> <=> (cv_pc = "raised" /\ ~cv_isdir)
    /\ cv_err = <<"FileNotFoundError">> =>
          xml_commands = <<>> /\ command_map_meta = <<>> /\ command_map = <<>>
    /\ cv_isdir => cv_err \notin {<<"KeyError">>, <<"IndexError">>}
    /\ cv_pc \in {"name_map", "full"} =>
          Keys(command_map_meta) = {cv_files[i].name : i \in Refentries}
    /\ cv_pc = "converted" =>
          Keys(command_map) = {cv_files[i].name : i \in Refentries}

\* C15: the template copied into the package is the one given to
\* create_package, and the default template cwd/_package only when none is
\* given.
C15_GivenTemplateCopied ==
    cp_pc \in {"write_docs", "done"} =>
        cp_copied = IF cp_args.template_path = None THEN DefaultTemplate
                    ELSE cp_args.template_path

\* C16: in what load_terms returns, the version of the version context is
\* terms["ansys_internal_version"].
C16_VersionMatchesTerms ==
    lt_pc = "returned" =>
        /\ VersionKey \in DOMAIN terms
        /\ _version = terms[VersionKey]

\* C17: on a constructed object, whatever setters have been called,
\* base_url is "https://ansyshelp.ansys.com/Views/Secured/corp/v" + version
\* + "/en/" and cmd_base_url is base_url + "/ans_cmd/".
C17_UrlsFollowVersion ==
    vc_pc = "ready" =>
        /\ _base_url =
               <<"https://ansyshelp.ansys.com/Views/Secured/corp/", "v">>
                   \o _version \o <<"/en/">>
        /\ _cmd_base_url = _base_url \o <<"/ans_cmd/">>

\* C18: a key of the hand-coded block that terms_global.ent defines (and
\* no source loaded later does) has in the returned table the value of the
\* file.
C18_FileOverridesConstants ==
    lt_pc = "returned" =>
        \A k \in (HandCodedKeys \cap DOMAIN GlobalTerms) \ LaterKeys :
            terms[k] = GlobalTerms[k]

\* What load_links makes of a list of files that all parse: the links, and
\* whether the call returns.
RECURSIVE LinksOfParsed(_)
LinksOfParsed(files) ==
    IF files = <<>> THEN [ok |-> TRUE, links |-> EmptyDict]
    ELSE LET before == LinksOfParsed(SubSeq(files, 1, Len(files) - 1))
             f == files[Len(files)]
         IN  IF ~before.ok \/ Content(f.tree, 1) = <<>>
             THEN [ok |-> FALSE, links |-> before.links]
             ELSE GrabLinks(f.tree, 1, before, WithSuffixEmpty(f.name),
                            StrOf(f.tree, Content(f.tree, 1)[1]))

\* C19: a file that cannot be parsed raises nothing and adds nothing: the
\* call ends as it does on the directory without that file, with the same
\* entries.
C19_UnparsableSkipped ==
    lk_pc \in {"returned", "raised"} =>
        LET others == LinksOfParsed(SelectSeq(lk_files, LAMBDA f : f.parsed))
        IN  /\ lk_pc = "returned" <=> others.ok
            /\ others.ok => lk_links = others.links

\* A load that returned the entries of a file scanned after an unparsable
\* one.
C19_Witness ==
    /\ lk_pc = "returned"
    /\ Len(lk_files) = 2
    /\ ~lk_files[1].parsed
    /\ lk_files[2].parsed
    /\ lk_links # EmptyDict

\* C20: once built, links, fcache, terms and name_map are read-only: no
\* step of the two load_commands passes, of write_source or of write_docs
\* changes links, fcache or terms, the [class, type] lists that commands
\* hold as their group included, and no step after create_name_map changes
\* name_map.
C20_TablesReadOnly ==
    [][/\ lk_links' = lk_links
       /\ fcache' = fcache
       /\ terms' = terms
       /\ cv_pc \notin {"meta", "name_map"} => name_map' = name_map]_vars

\* A run through write_docs in which a command holds a list of terms as its
\* group and all four tables have entries.
C20_Witness ==
    /\ cv_pc = "documented"
    /\ \E k \in 1..Len(command_map) :
          /\ GroupKey(command_map[k], cv_files, terms) # None
          /\ command_map[k].group = terms[GroupKey(command_map[k], cv_files, terms)]
          /\ ~SkippedStructured(command_map[k])
    /\ lk_links # EmptyDict
    /\ fcache # EmptyDict
    /\ terms # EmptyDict
    /\ name_map # EmptyDict

\* C21: in a structured write_source, with clean set or not, and with or
\* without a package directory left by an earlier run, no lookup of
\* package_structure[module] or package_structure[module][file] fails: the
\* run never ends with a KeyError.
C21_LookupsNeverFail ==
    ws_structured => cv_err # <<"KeyError">>

\* C22: after a structured write_source has returned with clean set, every
\* class file of the returned package_structure exists under the library
\* path and holds as many methods as the structure lists for it, whatever
\* the template holds.
C22_SourcesSurviveTemplate ==
    (cv_pc = "written" /\ ws_structured /\ ws_clean) =>
        \A c \in ClassesOf(package_structure) :
            /\ ClassFilePath(c[1], c[2]) \in DOMAIN ws_fs
            /\ Len(ws_fs[ClassFilePath(c[1], c[2])].methods)
                  = Len(package_structure[c[1]][c[2]][2])

\* C23: the package_path create_package gives to write_docs is the
\* new_package_path of write_source, target_path joined with the configured
\* new_package_name, whatever that name is.
C23_DocsInWrittenPackage ==
    cp_pc = "done" => cp_docs_path = cp_new_package_path

\* C24: when convert has returned, the mapping of the full pass has the
\* command names of the mapping of the meta-only pass, and every name of
\* command_map is a key of name_map, so that the lookups of write_source
\* find their key.
C24_SameNamesBothPasses ==
    cv_pc \in {"converted", "write", "written", "documented"} =>
        /\ Keys(command_map) = Keys(command_map_meta)
        /\ Keys(command_map) \subseteq DOMAIN name_map

\* A structured write_source has run over a mapping of two commands, one
\* of them a CAD import, and has looked up the identifier of the other.
C24_Witness ==
    /\ cv_pc = "written"
    /\ Len(command_map) = 2
    /\ \E k \in 1..2 :
          /\ command_map[k].group = NoGroup
          /\ RefOf(command_map[k]).get_group = <<<<"xtycadimport">>>>
    /\ \E path \in DOMAIN ws_fs : Len(ws_fs[path].methods) = 1

C26_ClassNameIsHeader ==
    ws_structured =>
        \A c \in ClassesOf(package_structure) :
            ClassFilePath(c[1], c[2]) \in DOMAIN ws_fs =>
                ws_fs[ClassFilePath(c[1], c[2])].header
                    = package_structure[c[1]][c[2]][1]

\* C27: load_terms never fails on the lookup of ansys_internal_version,
\* whether the variable-terms file is missing or is there without that
\* entity, and when it returns, terms has the key ansys_internal_version
\* and the version of the version context is set.
C27_VersionAlwaysSet ==
    /\ lt_err # <<"KeyError">>
    /\ lt_pc = "returned" =>
          /\ VersionKey \in DOMAIN terms
          /\ vc_pc = "ready"
          /\ _version # None

====
